---- MODULE Spec2Model ----
(***************************************************************************)
(* Model of two units of spotify_player:                                   *)
(*   - ui/single_line_input.rs : LineInput, a single-line text editor      *)
(*     (a Vec<char> and a cursor) driven by key sequences;                 *)
(*   - command.rs : the four construct_*_actions functions that build the  *)
(*     action menu of a track, album, artist or playlist.                  *)
(* Spec drives a LineInput; CatalogSpec drives the action constructors.    *)
(***************************************************************************)
EXTENDS Integers, Sequences, FiniteSets, TLC

VARIABLES
    line,       \* LineInput.line : Vec<char>, a sequence of scalar values
    cursor,     \* LineInput.cursor : usize
    last,       \* the last call made on the LineInput, its arguments, the
                \* state it found and what it returned
    prev,       \* history: the input() call before the last one, when it
                \* was given a plain character
    run,        \* history: the state the present run of consecutive
                \* Backspace calls started from, and how many calls it has
    typed,      \* history: the characters typed so far, while the buffer
                \* started empty and only plain characters were typed
    panicked,   \* TRUE once a call has panicked (the thread has unwound)
    view,       \* what widget() returned for the present line and cursor,
                \* if it was called since the last input()
    data,       \* DataReadGuard.user_data: the library snapshot
    menu,       \* the last action list constructed, and for which entity
    firstMenu   \* history: the first action list constructed

lineVars == <<line, cursor, last, prev, run, typed, panicked, view>>
catalogVars == <<data, menu, firstMenu>>
vars == <<lineVars, catalogVars>>

----------------------------------------------------------------------------
(* Bounds of the model *)

\* longest line the model lets a character key build
MaxLen == 3
\* longest seed handed to LineInput::new
MaxSeed == 2
\* longest run of consecutive Backspace calls: it empties any line and
\* goes on for two more calls
MaxRun == MaxLen + 2
\* most albums, artists and playlists the library snapshot holds together
MaxLib == 2

\* the scalar values typed: 'a' (one UTF-8 byte) and 'e acute' (two bytes)
Chars == {97, 233}

\* all sequences over S of length at most n
SeqUpTo(S, n) == UNION {[1..k -> S] : k \in 0..n}

----------------------------------------------------------------------------
(* Keys: crate::key::Key wraps a crossterm KeyCode in the modifier held.   *)
(* input() matches Key::None(code) and sends every other variant to None.  *)

Modifiers == {"None", "Ctrl", "Alt"}

KeyCodes ==
    [code : {"Char"}, ch : Chars]
        \cup [code : {"Backspace", "Left", "Right", "Enter", "F1"}, ch : {0}]

Keys == [mod : Modifiers, key : KeyCodes]

PlainKey(code) == [mod |-> "None", key |-> [code |-> code, ch |-> 0]]
CharKey(c) == [mod |-> "None", key |-> [code |-> "Char", ch |-> c]]

\* The keys that may follow the first key of a sequence.
Tails ==
    { <<>>,
      <<PlainKey("Backspace")>>,
      <<CharKey(97), PlainKey("Left")>> }

\* KeySequence.keys as delivered to input(): a first key and what follows.
KeySequences == { <<k>> \o t : k \in Keys, t \in Tails }

----------------------------------------------------------------------------
(* Vec<char> and usize, as far as input() uses them.  Indices are the      *)
(* source's (from 0); a result carries panic = TRUE where Rust panics.     *)

\* Vec::push
VecPush(v, c) == [panic |-> FALSE, vec |-> Append(v, c)]

\* Vec::insert(index, element): panics when index > len
VecInsert(v, i, c) ==
    IF i > Len(v)
    THEN [panic |-> TRUE, vec |-> v]
    ELSE [panic |-> FALSE,
          vec |-> SubSeq(v, 1, i) \o <<c>> \o SubSeq(v, i + 1, Len(v))]

\* Vec::remove(index): panics when index >= len
VecRemove(v, i) ==
    IF i >= Len(v)
    THEN [panic |-> TRUE, vec |-> v]
    ELSE [panic |-> FALSE,
          vec |-> SubSeq(v, 1, i) \o SubSeq(v, i + 2, Len(v))]

\* usize -= 1: an underflow is an arithmetic-overflow panic
USizeDec(n) ==
    IF n = 0
    THEN [panic |-> TRUE, val |-> n]
    ELSE [panic |-> FALSE, val |-> n - 1]

\* usize += 1
USizeInc(n) == [panic |-> FALSE, val |-> n + 1]

\* key_sequence.keys[0]: indexing an empty Vec panics
FirstKey(keys) ==
    IF Len(keys) = 0
    THEN [panic |-> TRUE, key |-> PlainKey("F1")]
    ELSE [panic |-> FALSE, key |-> keys[1]]

----------------------------------------------------------------------------
(* LineInput *)

\* The outcome of one call: the new fields, the value returned, and
\* whether the call panicked on the way.
Outcome(l, c, r, p) == [line |-> l, cursor |-> c, ret |-> r, panic |-> p]

\* new, with the cursor put after the seed
newCursorAtEnd(str) == [line |-> str, cursor |-> Len(str)]

\* LineInput::new
new(str) == [line |-> str, cursor |-> 0]

\* Default for LineInput
default == new(<<>>)

\* the Char arm inserting after the character at the cursor
InputCharInsertAfter(l, cur, c) ==
    LET at == IF cur = Len(l) THEN cur ELSE cur + 1
    IN  Outcome(VecInsert(l, at, c).vec, cur + 1, "TextChanged", FALSE)

\* the Char arm without its insert branch: the character always appended
InputCharAlwaysPush(l, cur, c) ==
    Outcome(VecPush(l, c).vec, USizeInc(cur).val, "TextChanged", FALSE)

\* the Char arm without `self.cursor += 1`
InputCharNoAdvance(l, cur, c) ==
    LET ins == IF cur = Len(l) THEN VecPush(l, c) ELSE VecInsert(l, cur, c)
    IN  Outcome(ins.vec, cur, "TextChanged", ins.panic)

\* KeyCode::Char(c) arm
InputChar(l, cur, c) ==
    LET ins == IF cur = Len(l) THEN VecPush(l, c) ELSE VecInsert(l, cur, c)
        inc == USizeInc(cur)
    IN  IF ins.panic
        THEN Outcome(l, cur, "None", TRUE)
        ELSE Outcome(ins.vec, inc.val, "TextChanged", inc.panic)

\* the Backspace arm reporting TextChanged from its no-op branch too
InputBackspaceAlwaysChanged(l, cur) ==
    IF Len(l) = 0 \/ cur = 0
    THEN Outcome(l, cur, "TextChanged", FALSE)
    ELSE Outcome(VecRemove(l, cur - 1).vec, cur - 1, "TextChanged", FALSE)

\* the Backspace arm deleting forward when the cursor is at 0
InputBackspaceDeleteForward(l, cur) ==
    IF Len(l) = 0
    THEN Outcome(l, cur, "Ack", FALSE)
    ELSE IF cur = 0
         THEN Outcome(VecRemove(l, 0).vec, 0, "TextChanged", FALSE)
         ELSE Outcome(VecRemove(l, cur - 1).vec, cur - 1, "TextChanged", FALSE)

\* the Backspace arm removing before it decrements
InputBackspaceRemoveFirst(l, cur) ==
    IF Len(l) = 0 \/ cur = 0
    THEN Outcome(l, cur, "Ack", FALSE)
    ELSE LET rem == VecRemove(l, cur)
             dec == USizeDec(cur)
         IN  IF rem.panic
             THEN Outcome(l, cur, "None", TRUE)
             ELSE Outcome(rem.vec, dec.val, "TextChanged", dec.panic)

\* the Backspace arm guarded by is_empty() alone
InputBackspaceEmptyOnly(l, cur) ==
    IF Len(l) = 0
    THEN Outcome(l, cur, "Ack", FALSE)
    ELSE LET dec == USizeDec(cur)
             rem == VecRemove(l, dec.val)
         IN  IF dec.panic \/ rem.panic
             THEN Outcome(l, cur, "None", TRUE)
             ELSE Outcome(rem.vec, dec.val, "TextChanged", FALSE)

\* KeyCode::Backspace arm
InputBackspace(l, cur) ==
    IF Len(l) = 0 \/ cur = 0
    THEN Outcome(l, cur, "Ack", FALSE)
    ELSE LET dec == USizeDec(cur)
             rem == VecRemove(l, dec.val)
         IN  IF dec.panic
             THEN Outcome(l, cur, "None", TRUE)
             ELSE IF rem.panic
                  THEN Outcome(l, dec.val, "None", TRUE)
                  ELSE Outcome(rem.vec, dec.val, "TextChanged", FALSE)

\* the Left arm without its cursor == 0 guard
InputLeftNoGuard(l, cur) ==
    LET dec == USizeDec(cur)
    IN  IF dec.panic
        THEN Outcome(l, cur, "None", TRUE)
        ELSE Outcome(l, dec.val, "CursorMoved", FALSE)

\* the Left arm as a saturating decrement that always reports a move
InputLeftSaturating(l, cur) ==
    Outcome(l, IF cur = 0 THEN 0 ELSE cur - 1, "CursorMoved", FALSE)

\* KeyCode::Left arm
InputLeft(l, cur) ==
    IF cur = 0
    THEN Outcome(l, cur, "Ack", FALSE)
    ELSE LET dec == USizeDec(cur)
         IN  IF dec.panic
             THEN Outcome(l, cur, "None", TRUE)
             ELSE Outcome(l, dec.val, "CursorMoved", FALSE)

\* the Right arm without its cursor == len guard
InputRightNoGuard(l, cur) == Outcome(l, cur + 1, "CursorMoved", FALSE)

\* KeyCode::Right arm
InputRight(l, cur) ==
    IF cur = Len(l)
    THEN Outcome(l, cur, "Ack", FALSE)
    ELSE LET inc == USizeInc(cur)
         IN  Outcome(l, inc.val, "CursorMoved", inc.panic)

\* input() handling every key of the sequence in turn and returning the
\* effect of the last one
RECURSIVE inputEveryKey(_, _, _)
inputEveryKey(l, cur, keys) ==
    LET k == keys[1]
        o == IF k.mod = "None"
             THEN CASE k.key.code = "Char" -> InputChar(l, cur, k.key.ch)
                    [] k.key.code = "Backspace" -> InputBackspace(l, cur)
                    [] k.key.code = "Left" -> InputLeft(l, cur)
                    [] k.key.code = "Right" -> InputRight(l, cur)
                    [] OTHER -> Outcome(l, cur, "None", FALSE)
             ELSE Outcome(l, cur, "None", FALSE)
    IN  IF Len(keys) = 1 \/ o.panic
        THEN o
        ELSE inputEveryKey(o.line, o.cursor, Tail(keys))

\* input() matching the key code under any modifier
inputAnyModifier(l, cur, keys) ==
    LET k == keys[1]
    IN  CASE k.key.code = "Char" -> InputChar(l, cur, k.key.ch)
          [] k.key.code = "Backspace" -> InputBackspace(l, cur)
          [] k.key.code = "Left" -> InputLeft(l, cur)
          [] k.key.code = "Right" -> InputRight(l, cur)
          [] OTHER -> Outcome(l, cur, "None", FALSE)

\* LineInput::input: the match on key_sequence.keys[0]
input(l, cur, keys) ==
    LET first == FirstKey(keys)
        k == first.key
    IN  IF first.panic
        THEN Outcome(l, cur, "None", TRUE)
        ELSE IF k.mod = "None"
             THEN CASE k.key.code = "Char" -> InputChar(l, cur, k.key.ch)
                    [] k.key.code = "Backspace" -> InputBackspace(l, cur)
                    [] k.key.code = "Left" -> InputLeft(l, cur)
                    [] k.key.code = "Right" -> InputRight(l, cur)
                    [] OTHER -> Outcome(l, cur, "None", FALSE)
             ELSE Outcome(l, cur, "None", FALSE)

\* UTF-8 encoding of one scalar value (what String's FromIterator<char>
\* pushes for it)
Utf8(c) ==
    IF c < 128 THEN <<c>>
    ELSE IF c < 2048 THEN <<192 + (c \div 64), 128 + (c % 64)>>
    ELSE IF c < 65536
         THEN <<224 + (c \div 4096), 128 + ((c \div 64) % 64), 128 + (c % 64)>>
         ELSE <<240 + (c \div 262144), 128 + ((c \div 4096) % 64),
                128 + ((c \div 64) % 64), 128 + (c % 64)>>

\* chars.iter().collect::<String>(): the bytes of the characters in order
RECURSIVE CollectString(_)
CollectString(cs) ==
    IF Len(cs) = 0 THEN <<>> ELSE Utf8(Head(cs)) \o CollectString(Tail(cs))

\* LineInput::get_text
get_text(l) == CollectString(l)

\* LineInput::is_empty
is_empty(l) == Len(l) = 0

\* The slices and the element widget() takes of line, each with the range
\* of indices it reads; a range outside 0..len panics.
RangeOf(v, lo, hi) ==
    [panic |-> lo > hi \/ hi > Len(v),
     read |-> [lo |-> lo, hi |-> hi],
     vec |-> IF lo > hi \/ hi > Len(v) THEN <<>> ELSE SubSeq(v, lo + 1, hi)]

\* &line[a..b]
SliceRange(v, a, b) == RangeOf(v, a, b)
\* &line[a..]
SliceFrom(v, a) == RangeOf(v, a, Len(v))
\* line[i]
VecIndex(v, i) == RangeOf(v, i, i + 1)

\* A span of the rendered line: its text and whether it is drawn reversed.
Span(text, reversed) == [text |-> text, reversed |-> reversed]

\* What widget() hands back: the spans of the Paragraph, the reads of line
\* made for it, and whether one of them panicked.
Rendered(active, spans, reads, panic) ==
    [shown |-> TRUE, active |-> active, spans |-> spans, reads |-> reads,
     panic |-> panic]

\* widget() reading line[cursor] and line[cursor + 1..] without comparing
\* cursor with len
widgetNoEndCheck(l, cur, is_active) ==
    IF ~is_active
    THEN Rendered(FALSE, <<Span(CollectString(l), FALSE)>>, <<>>, FALSE)
    ELSE LET before == SliceRange(l, 0, cur)
             after == SliceFrom(l, cur + 1)
             at == VecIndex(l, cur)
         IN  Rendered(TRUE,
                 << Span(CollectString(before.vec), FALSE),
                    Span(CollectString(at.vec), TRUE),
                    Span(CollectString(after.vec), FALSE) >>,
                 <<before.read, after.read, at.read>>,
                 before.panic \/ after.panic \/ at.panic)

\* widget() taking line[cursor..] for the text after the cursor
widgetAfterFromCursor(l, cur, is_active) ==
    IF ~is_active
    THEN Rendered(FALSE, <<Span(CollectString(l), FALSE)>>, <<>>, FALSE)
    ELSE LET before == SliceRange(l, 0, cur)
             after == SliceFrom(l, cur)
             at == VecIndex(l, cur)
         IN  Rendered(TRUE,
                 << Span(CollectString(before.vec), FALSE),
                    Span(IF cur = Len(l) THEN <<32>> ELSE CollectString(at.vec),
                         TRUE),
                    Span(CollectString(after.vec), FALSE) >>,
                 <<before.read>>,
                 before.panic)

\* LineInput::widget
widget(l, cur, is_active) ==
    IF ~is_active
    THEN Rendered(FALSE, <<Span(CollectString(l), FALSE)>>, <<>>, FALSE)
    ELSE LET before == SliceRange(l, 0, cur)
             atEnd == cur = Len(l)
             after == SliceFrom(l, cur + 1)
             at == VecIndex(l, cur)
             before_cursor == CollectString(before.vec)
             after_cursor == IF atEnd THEN <<>> ELSE CollectString(after.vec)
             cursor_text == IF atEnd THEN <<32>> ELSE CollectString(at.vec)
             reads == IF before.panic THEN <<before.read>>
                      ELSE IF atEnd THEN <<before.read>>
                      ELSE IF after.panic THEN <<before.read, after.read>>
                      ELSE <<before.read, after.read, at.read>>
         IN  Rendered(TRUE,
                 << Span(before_cursor, FALSE),
                    Span(cursor_text, TRUE),
                    Span(after_cursor, FALSE) >>,
                 reads,
                 before.panic \/ (~atEnd /\ (after.panic \/ at.panic)))

----------------------------------------------------------------------------
(* The action menus of command.rs *)

\* Identifiers and the other fields of an entity (a cached copy of an
\* entity may carry an older name under the same id).
Ids == {"id1", "id2"}
Entities ==
    { [id |-> "id1", name |-> "x"],
      [id |-> "id1", name |-> "y"],
      [id |-> "id2", name |-> "x"] }

\* iter().any(|a| a.id == id) over a list of the snapshot
AnyId(list, id) == \E i \in 1..Len(list) : list[i].id = id

\* UserData::is_liked_track: the track's id is among the saved tracks
is_liked_track(d, track) == track.id \in d.saved_tracks

\* construct_track_actions handing out the list it built last, as long as
\* the menu shown is a track's
construct_track_actions_cached(track, d) ==
    IF menu.kind = "track"
    THEN menu.actions
    ELSE IF is_liked_track(d, track)
         THEN <<"TrackAction::GoToArtist", "TrackAction::GoToAlbum",
                "TrackAction::GoToTrackRadio", "TrackAction::ShowActionsOnAlbum",
                "TrackAction::ShowActionsOnArtist", "TrackAction::CopyTrackLink",
                "TrackAction::AddToPlaylist", "TrackAction::AddToQueue",
                "TrackAction::DeleteFromLikedTracks">>
         ELSE <<"TrackAction::GoToArtist", "TrackAction::GoToAlbum",
                "TrackAction::GoToTrackRadio", "TrackAction::ShowActionsOnAlbum",
                "TrackAction::ShowActionsOnArtist", "TrackAction::CopyTrackLink",
                "TrackAction::AddToPlaylist", "TrackAction::AddToQueue",
                "TrackAction::AddToLikedTracks">>

\* construct_track_actions
construct_track_actions(track, d) ==
    LET actions ==
            << "TrackAction::GoToArtist",
               "TrackAction::GoToAlbum",
               "TrackAction::GoToTrackRadio",
               "TrackAction::ShowActionsOnAlbum",
               "TrackAction::ShowActionsOnArtist",
               "TrackAction::CopyTrackLink",
               "TrackAction::AddToPlaylist",
               "TrackAction::AddToQueue" >>
    IN  IF is_liked_track(d, track)
        THEN Append(actions, "TrackAction::DeleteFromLikedTracks")
        ELSE Append(actions, "TrackAction::AddToLikedTracks")

\* construct_album_actions without the else: AddToLibrary always pushed
construct_album_actions_no_else(album, d) ==
    LET actions ==
            << "AlbumAction::GoToArtist",
               "AlbumAction::GoToAlbumRadio",
               "AlbumAction::ShowActionsOnArtist",
               "AlbumAction::CopyAlbumLink" >>
        member == IF AnyId(d.saved_albums, album.id)
                  THEN Append(actions, "AlbumAction::DeleteFromLibrary")
                  ELSE actions
    IN  Append(member, "AlbumAction::AddToLibrary")

\* construct_album_actions
construct_album_actions(album, d) ==
    LET actions ==
            << "AlbumAction::GoToArtist",
               "AlbumAction::GoToAlbumRadio",
               "AlbumAction::ShowActionsOnArtist",
               "AlbumAction::CopyAlbumLink" >>
    IN  IF AnyId(d.saved_albums, album.id)
        THEN Append(actions, "AlbumAction::DeleteFromLibrary")
        ELSE Append(actions, "AlbumAction::AddToLibrary")

\* construct_artist_actions with the two branches swapped
construct_artist_actions_swapped(artist, d) ==
    LET actions ==
            << "ArtistAction::GoToArtistRadio",
               "ArtistAction::CopyArtistLink" >>
    IN  IF AnyId(d.followed_artists, artist.id)
        THEN Append(actions, "ArtistAction::Follow")
        ELSE Append(actions, "ArtistAction::Unfollow")

\* construct_artist_actions
construct_artist_actions(artist, d) ==
    LET actions ==
            << "ArtistAction::GoToArtistRadio",
               "ArtistAction::CopyArtistLink" >>
    IN  IF AnyId(d.followed_artists, artist.id)
        THEN Append(actions, "ArtistAction::Unfollow")
        ELSE Append(actions, "ArtistAction::Follow")

\* construct_playlist_actions testing membership by whole-value equality
construct_playlist_actions_deep(playlist, d) ==
    LET actions ==
            << "PlaylistAction::GoToPlaylistRadio",
               "PlaylistAction::CopyPlaylistLink" >>
    IN  IF \E i \in 1..Len(d.playlists) : d.playlists[i] = playlist
        THEN Append(actions, "PlaylistAction::DeleteFromLibrary")
        ELSE Append(actions, "PlaylistAction::AddToLibrary")

\* construct_playlist_actions
construct_playlist_actions(playlist, d) ==
    LET actions ==
            << "PlaylistAction::GoToPlaylistRadio",
               "PlaylistAction::CopyPlaylistLink" >>
    IN  IF AnyId(d.playlists, playlist.id)
        THEN Append(actions, "PlaylistAction::DeleteFromLibrary")
        ELSE Append(actions, "PlaylistAction::AddToLibrary")

----------------------------------------------------------------------------
(* State machine *)

NoKeys == <<>>
NoView == [shown |-> FALSE, active |-> FALSE, spans |-> <<>>, reads |-> <<>>,
           panic |-> FALSE]
NoEntity == [id |-> "", name |-> ""]
NoMenu == [kind |-> "none", entity |-> NoEntity, actions |-> <<>>, again |-> FALSE]
NoData ==
    [saved_albums |-> <<>>, followed_artists |-> <<>>, playlists |-> <<>>,
     saved_tracks |-> {}]

Snapshots ==
    { d \in [saved_albums : SeqUpTo(Entities, MaxLib),
             followed_artists : SeqUpTo(Entities, MaxLib),
             playlists : SeqUpTo(Entities, MaxLib),
             saved_tracks : SUBSET Ids] :
        Len(d.saved_albums) + Len(d.followed_artists) + Len(d.playlists)
            <= MaxLib }

IsPlainChar(k) == k.mod = "None" /\ k.key.code = "Char"
IsPlainBackspace(k) == k.mod = "None" /\ k.key.code = "Backspace"

NoCall == [op |-> "none", key |-> PlainKey("F1"), line |-> <<>>, cursor |-> 0,
           ret |-> "None"]
NoRun == [line |-> <<>>, cursor |-> 0, n |-> 0]

\* A LineInput as its constructor leaves it; op is "new" or "default".
Constructed(op, seed, self) ==
    /\ line = self.line
    /\ cursor = self.cursor
    /\ last = [op |-> op, seed |-> seed, keys |-> NoKeys,
               line |-> <<>>, cursor |-> 0, ret |-> "None"]
    /\ prev = NoCall
    /\ run = NoRun
    /\ typed = [pure |-> Len(self.line) = 0, s |-> <<>>]
    /\ panicked = FALSE
    /\ view = NoView

InitLine ==
    \/ \E seed \in SeqUpTo(Chars, MaxSeed) : Constructed("new", seed, new(seed))
    \/ Constructed("default", <<>>, default)

Init ==
    /\ InitLine
    /\ data = NoData
    /\ menu = NoMenu
    /\ firstMenu = NoMenu

\* One call of LineInput::input with a key sequence.
InputCall ==
    /\ ~panicked
    /\ \E ks \in KeySequences :
        /\ IsPlainChar(ks[1]) => Len(line) < MaxLen
        /\ IsPlainBackspace(ks[1]) => run.n < MaxRun
        /\ LET o == input(line, cursor, ks)
           IN  /\ line' = o.line
               /\ cursor' = o.cursor
               /\ panicked' = o.panic
               /\ last' = [op |-> "input", seed |-> <<>>, keys |-> ks,
                           line |-> line, cursor |-> cursor, ret |-> o.ret]
               /\ typed' = IF typed.pure /\ IsPlainChar(ks[1])
                           THEN [pure |-> TRUE, s |-> Append(typed.s, ks[1].key.ch)]
                           ELSE [pure |-> FALSE, s |-> <<>>]
               /\ prev' = IF last.op = "input" /\ IsPlainChar(last.keys[1])
                          THEN [op |-> "input", key |-> last.keys[1],
                                line |-> last.line, cursor |-> last.cursor,
                                ret |-> last.ret]
                          ELSE NoCall
               /\ run' = IF ~IsPlainBackspace(ks[1]) THEN NoRun
                         ELSE IF run.n > 0 THEN [run EXCEPT !.n = run.n + 1]
                         ELSE [line |-> line, cursor |-> cursor, n |-> 1]
               /\ view' = NoView
    /\ UNCHANGED catalogVars

\* One call of LineInput::widget, for the focused or an unfocused input.
WidgetCall ==
    /\ ~panicked
    /\ \E is_active \in BOOLEAN :
        LET w == widget(line, cursor, is_active)
        IN  /\ view' = w
            /\ panicked' = w.panic
    /\ UNCHANGED <<line, cursor, last, prev, run, typed>>
    /\ UNCHANGED catalogVars

Next == InputCall \/ WidgetCall

Spec == Init /\ [][Next]_vars

\* A constructor has returned actions for entity: the menu is kept (again
\* tells that it is not the first one built), and remembered when it is.
Built(kind, entity, actions) ==
    /\ menu' = [kind |-> kind, entity |-> entity, actions |-> actions,
                again |-> firstMenu.kind # "none"]
    /\ firstMenu' = IF firstMenu.kind = "none" THEN menu' ELSE firstMenu
    /\ UNCHANGED data

\* The action constructors, each called on some entity against the snapshot.
CatalogInit ==
    /\ Constructed("default", <<>>, default)
    /\ data \in Snapshots
    /\ menu = NoMenu
    /\ firstMenu = NoMenu

ConstructTrackActions ==
    /\ \E track \in Entities :
        Built("track", track, construct_track_actions(track, data))
    /\ UNCHANGED lineVars

ConstructAlbumActions ==
    /\ \E album \in Entities :
        Built("album", album, construct_album_actions(album, data))
    /\ UNCHANGED lineVars

ConstructArtistActions ==
    /\ \E artist \in Entities :
        Built("artist", artist, construct_artist_actions(artist, data))
    /\ UNCHANGED lineVars

ConstructPlaylistActions ==
    /\ \E playlist \in Entities :
        Built("playlist", playlist, construct_playlist_actions(playlist, data))
    /\ UNCHANGED lineVars

CatalogNext ==
    \/ ConstructTrackActions
    \/ ConstructAlbumActions
    \/ ConstructArtistActions
    \/ ConstructPlaylistActions

CatalogSpec == CatalogInit /\ [][CatalogNext]_vars

----------------------------------------------------------------------------
(* Properties of LineInput, checked under Spec *)

\* The last call was input(), and what it was given and found.
Called == last.op = "input"
Key0 == last.keys[1]
Plain(code) == Called /\ Key0.mod = "None" /\ Key0.key.code = code

\* The keys input() interprets.
Recognized(k) ==
    k.mod = "None" /\ k.key.code \in {"Char", "Backspace", "Left", "Right"}

\* s[i..j) in the source's indices
Slice(s, i, j) == SubSeq(s, i + 1, j)

\* The text of a string literal spelling the characters cs, byte by byte.
Literal == (97 :> <<97>>) @@ (233 :> <<195, 169>>)
RECURSIVE Spelled(_)
Spelled(cs) ==
    IF Len(cs) = 0 THEN <<>> ELSE Literal[Head(cs)] \o Spelled(Tail(cs))

\* C1: from new(seed), for any seed, and after any sequence of input()
\* calls with any keys, 0 <= cursor <= len(line).
C1_CursorInBounds == cursor >= 0 /\ cursor <= Len(line)

\* C1 witness: a Right has just brought the cursor up to len(line), on a
\* line of more than one character.
C1_Witness ==
    /\ Plain("Right")
    /\ last.ret = "CursorMoved"
    /\ cursor = Len(line)
    /\ Len(line) > 1

\* C2: input() returns None exactly when the first key is not an unmodified
\* Char, Backspace, Left or Right, and then line and cursor are unchanged;
\* for the four recognized keys the result is never None.
C2_NoneIffUnrecognized ==
    Called =>
        /\ (last.ret = "None") <=> ~Recognized(Key0)
        /\ last.ret = "None" => (line = last.line /\ cursor = last.cursor)
        /\ Recognized(Key0) => last.ret \in {"TextChanged", "CursorMoved", "Ack"}

\* C2 witness: Ctrl+char on a non-empty buffer was passed on with None.
C2_Witness ==
    /\ Called
    /\ Key0.mod = "Ctrl"
    /\ Key0.key.code = "Char"
    /\ last.ret = "None"
    /\ Len(line) > 0

\* C3: input(Char(c)) on line = L, cursor = k returns TextChanged and leaves
\* line = L[0..k] ++ [c] ++ L[k..] and cursor = k + 1.
C3_CharInserts ==
    Plain("Char") =>
        LET L == last.line
            k == last.cursor
        IN  /\ last.ret = "TextChanged"
            /\ line = Slice(L, 0, k) \o <<Key0.key.ch>> \o Slice(L, k, Len(L))
            /\ cursor = k + 1

\* C3 witness: a character was inserted strictly inside the line, between
\* two different characters.
C3_Witness ==
    /\ Plain("Char")
    /\ last.cursor > 0
    /\ last.cursor < Len(last.line)
    /\ last.line[last.cursor] # last.line[last.cursor + 1]
    /\ last.ret = "TextChanged"

\* C4: input(Backspace) on line = L, cursor = k > 0 returns TextChanged and
\* leaves line = L[0..k-1] ++ L[k..] and cursor = k - 1: the character left
\* of the pre-call cursor is removed, never the one at it.
C4_BackspaceRemovesLeft ==
    (Plain("Backspace") /\ last.cursor > 0) =>
        LET L == last.line
            k == last.cursor
        IN  /\ last.ret = "TextChanged"
            /\ line = Slice(L, 0, k - 1) \o Slice(L, k, Len(L))
            /\ cursor = k - 1

\* C4 witness: Backspace inside the line, where the character left of the
\* cursor differs from the one at the cursor.
C4_Witness ==
    /\ Plain("Backspace")
    /\ last.cursor > 0
    /\ last.cursor < Len(last.line)
    /\ last.line[last.cursor] # last.line[last.cursor + 1]
    /\ last.ret = "TextChanged"

\* C5: a Backspace given to a buffer that is empty or has cursor = 0 returns
\* Ack and changes neither line nor cursor, so the same holds of the next
\* Backspace, and of any number of them.  (A step that leaves no view shown
\* is a call of input(); last' holds the key it was given.)
C5_BackspaceNoOp ==
    [][ (/\ Len(line) = 0 \/ cursor = 0
         /\ ~view'.shown
         /\ last'.op = "input"
         /\ last'.keys[1].mod = "None"
         /\ last'.keys[1].key.code = "Backspace")
        => (/\ last'.ret = "Ack"
            /\ line' = line
            /\ cursor' = cursor
            /\ ~panicked') ]_vars

\* C5 witness: Backspace was acknowledged for the third time in a row on a
\* buffer that holds text, the cursor still at 0.
C5_Witness ==
    /\ Plain("Backspace")
    /\ last.cursor = 0
    /\ Len(last.line) > 0
    /\ last.ret = "Ack"
    /\ line = last.line
    /\ cursor = 0
    /\ run.n >= 3
    /\ run.cursor = 0

\* C6: Left and Right never change line.  At cursor = 0 Left returns Ack and
\* cursor stays; at cursor = len(line) Right returns Ack and cursor stays;
\* otherwise Left decrements and Right increments cursor, with CursorMoved.
C6_LeftRight ==
    /\ Plain("Left") =>
        /\ line = last.line
        /\ IF last.cursor = 0
           THEN last.ret = "Ack" /\ cursor = 0
           ELSE last.ret = "CursorMoved" /\ cursor = last.cursor - 1
    /\ Plain("Right") =>
        /\ line = last.line
        /\ IF last.cursor = Len(last.line)
           THEN last.ret = "Ack" /\ cursor = Len(last.line)
           ELSE last.ret = "CursorMoved" /\ cursor = last.cursor + 1

\* C6 witness: Right has moved the cursor onto the end of a non-empty line.
C6_Witness ==
    /\ Plain("Right")
    /\ last.cursor + 1 = Len(last.line)
    /\ last.ret = "CursorMoved"
    /\ cursor = Len(line)

\* C7: typing the characters of s, in order and with no other key, into an
\* empty buffer ends with get_text() = s and cursor = len(s).
C7_TypedRoundTrip ==
    typed.pure =>
        /\ get_text(line) = Spelled(typed.s)
        /\ cursor = Len(typed.s)

\* C7 witness: at least two characters were typed, not all the same.
C7_Witness ==
    /\ typed.pure
    /\ Len(typed.s) >= 2
    /\ typed.s[1] # typed.s[2]

\* C8: new(seed) yields cursor = 0 whatever the seed's length, get_text()
\* equal to the seed and is_empty() true iff the seed is empty; Default
\* yields the empty buffer with cursor 0.
C8_Construction ==
    /\ last.op = "new" =>
        /\ cursor = 0
        /\ get_text(line) = Spelled(last.seed)
        /\ is_empty(line) <=> Len(last.seed) = 0
    /\ last.op = "default" =>
        /\ cursor = 0
        /\ line = <<>>
        /\ get_text(line) = <<>>
        /\ is_empty(line)

\* C8 witness: a buffer just built from a seed of two different characters.
C8_Witness ==
    /\ last.op = "new"
    /\ Len(last.seed) = 2
    /\ last.seed[1] # last.seed[2]
    /\ cursor = 0

\* C9: input() never panics: whatever the buffer state and the key
\* delivered, the call returns and no index, removal or cursor arithmetic
\* goes out of range.
C9_NoPanic == ~panicked

\* C9 witness: Backspace returned after removing the last element of the
\* line, the cursor having stood at len(line).
C9_Witness ==
    /\ Plain("Backspace")
    /\ last.cursor = Len(last.line)
    /\ last.cursor > 0
    /\ last.ret = "TextChanged"
    /\ ~panicked

----------------------------------------------------------------------------
(* Properties of the action menus, checked under CatalogSpec *)

TrackBase ==
    << "TrackAction::GoToArtist", "TrackAction::GoToAlbum",
       "TrackAction::GoToTrackRadio", "TrackAction::ShowActionsOnAlbum",
       "TrackAction::ShowActionsOnArtist", "TrackAction::CopyTrackLink",
       "TrackAction::AddToPlaylist", "TrackAction::AddToQueue" >>
AlbumBase ==
    << "AlbumAction::GoToArtist", "AlbumAction::GoToAlbumRadio",
       "AlbumAction::ShowActionsOnArtist", "AlbumAction::CopyAlbumLink" >>
ArtistBase == << "ArtistAction::GoToArtistRadio", "ArtistAction::CopyArtistLink" >>
PlaylistBase ==
    << "PlaylistAction::GoToPlaylistRadio", "PlaylistAction::CopyPlaylistLink" >>

\* The list is base, then exactly one member of toggle, and nothing else.
BasePlusToggle(actions, base, toggle) ==
    /\ Len(actions) = Len(base) + 1
    /\ SubSeq(actions, 1, Len(base)) = base
    /\ actions[Len(actions)] \in toggle
    /\ Cardinality({i \in 1..Len(actions) : actions[i] \in toggle}) = 1

\* C10: for each entity kind and every library snapshot the constructed
\* list is the kind's fixed base list in its order followed by exactly one
\* toggle action as the last element.
C10_BasePlusOneToggle ==
    /\ menu.kind = "track" =>
        BasePlusToggle(menu.actions, TrackBase,
            {"TrackAction::AddToLikedTracks", "TrackAction::DeleteFromLikedTracks"})
    /\ menu.kind = "album" =>
        BasePlusToggle(menu.actions, AlbumBase,
            {"AlbumAction::AddToLibrary", "AlbumAction::DeleteFromLibrary"})
    /\ menu.kind = "artist" =>
        BasePlusToggle(menu.actions, ArtistBase,
            {"ArtistAction::Follow", "ArtistAction::Unfollow"})
    /\ menu.kind = "playlist" =>
        BasePlusToggle(menu.actions, PlaylistBase,
            {"PlaylistAction::AddToLibrary", "PlaylistAction::DeleteFromLibrary"})

\* C10 witness: the menu of an album that is among the saved albums.
C10_Witness ==
    /\ menu.kind = "album"
    /\ Len(data.saved_albums) > 0
    /\ \E i \in 1..Len(data.saved_albums) : data.saved_albums[i].id = menu.entity.id
    /\ Len(menu.actions) = 5

\* The identifiers of a list of the snapshot.
IdsOf(list) == {list[i].id : i \in 1..Len(list)}
LastOf(actions) == actions[Len(actions)]

\* C11: the final action is the remove variant if and only if the entity is
\* currently a member: liked for a track, among saved_albums for an album,
\* among followed_artists for an artist, among playlists for a playlist.
C11_ToggleFollowsMembership ==
    /\ menu.kind = "track" =>
        LastOf(menu.actions) =
            IF is_liked_track(data, menu.entity)
            THEN "TrackAction::DeleteFromLikedTracks"
            ELSE "TrackAction::AddToLikedTracks"
    /\ menu.kind = "album" =>
        LastOf(menu.actions) =
            IF menu.entity.id \in IdsOf(data.saved_albums)
            THEN "AlbumAction::DeleteFromLibrary"
            ELSE "AlbumAction::AddToLibrary"
    /\ menu.kind = "artist" =>
        LastOf(menu.actions) =
            IF menu.entity.id \in IdsOf(data.followed_artists)
            THEN "ArtistAction::Unfollow"
            ELSE "ArtistAction::Follow"
    /\ menu.kind = "playlist" =>
        LastOf(menu.actions) =
            IF menu.entity.id \in IdsOf(data.playlists)
            THEN "PlaylistAction::DeleteFromLibrary"
            ELSE "PlaylistAction::AddToLibrary"

\* C11 witness: the menu of a followed artist ends with Unfollow, the
\* snapshot following two artists of different ids.
C11_Witness ==
    /\ menu.kind = "artist"
    /\ menu.entity.id \in IdsOf(data.followed_artists)
    /\ LastOf(menu.actions) = "ArtistAction::Unfollow"
    /\ Len(data.followed_artists) = 2
    /\ Cardinality(IdsOf(data.followed_artists)) = 2

ConstructFor(kind, e, d) ==
    CASE kind = "album" -> construct_album_actions(e, d)
      [] kind = "artist" -> construct_artist_actions(e, d)
      [] kind = "playlist" -> construct_playlist_actions(e, d)
ListOf(kind, d) ==
    CASE kind = "album" -> d.saved_albums
      [] kind = "artist" -> d.followed_artists
      [] kind = "playlist" -> d.playlists
WithList(kind, d, l) ==
    CASE kind = "album" -> [d EXCEPT !.saved_albums = l]
      [] kind = "artist" -> [d EXCEPT !.followed_artists = l]
      [] kind = "playlist" -> [d EXCEPT !.playlists = l]

\* The lists that carry the ids of l in l's order, under any other fields.
SameIdLists(l) ==
    { l2 \in [1..Len(l) -> Entities] : \A i \in 1..Len(l) : l2[i].id = l[i].id }

\* C13: membership is decided by identifier alone: for album, artist and
\* playlist, an entity value with the same id and other fields gets the
\* same list, from the constructor and from an earlier call, and so does
\* the same entity against a snapshot whose entries differ in other fields.
C13_IdentifierOnly ==
    menu.kind \in {"album", "artist", "playlist"} =>
        /\ \A e2 \in Entities :
            e2.id = menu.entity.id
                => ConstructFor(menu.kind, e2, data) = menu.actions
        /\ (firstMenu.kind = menu.kind /\ firstMenu.entity.id = menu.entity.id)
            => firstMenu.actions = menu.actions
        /\ \A l2 \in SameIdLists(ListOf(menu.kind, data)) :
            ConstructFor(menu.kind, menu.entity, WithList(menu.kind, data, l2))
                = menu.actions

\* C13 witness: the menu of a playlist whose id is in the snapshot under
\* another name, built after the menu of the snapshot's own copy.
C13_Witness ==
    /\ menu.kind = "playlist"
    /\ menu.again
    /\ firstMenu.kind = "playlist"
    /\ firstMenu.entity.id = menu.entity.id
    /\ firstMenu.entity # menu.entity
    /\ \E i \in 1..Len(data.playlists) : data.playlists[i] = firstMenu.entity
    /\ \A i \in 1..Len(data.playlists) : data.playlists[i] # menu.entity
    /\ LastOf(menu.actions) = "PlaylistAction::DeleteFromLibrary"

----------------------------------------------------------------------------
(* Further properties of LineInput, checked under Spec *)

Abs(n) == IF n < 0 THEN 0 - n ELSE n

\* C15: the effect returned classifies the change the call made:
\* TextChanged iff line differs from its pre-call value; CursorMoved iff
\* line is unchanged and cursor differs; Ack iff the key is a recognized
\* key and neither line nor cursor changed.
C15_EffectClassifiesChange ==
    Called =>
        /\ (last.ret = "TextChanged") <=> (line # last.line)
        /\ (last.ret = "CursorMoved")
            <=> (line = last.line /\ cursor # last.cursor)
        /\ (last.ret = "Ack")
            <=> (Recognized(Key0) /\ line = last.line /\ cursor = last.cursor)

\* C15 witness: Left at cursor 0 of a line with text was acknowledged and
\* changed nothing.
C15_Witness ==
    /\ Plain("Left")
    /\ last.ret = "Ack"
    /\ Len(line) > 0
    /\ line = last.line
    /\ cursor = last.cursor

\* C16: one call makes at most one mutation: len(line) and cursor each
\* change by at most 1, and the result and the new state are those of the
\* first key alone, whatever keys follow it in the sequence.
C16_FirstKeyOnly ==
    Called =>
        /\ Abs(Len(line) - Len(last.line)) <= 1
        /\ Abs(cursor - last.cursor) <= 1
        /\ \A t \in Tails :
            LET o == input(last.line, last.cursor, <<Key0>> \o t)
            IN  o.line = line /\ o.cursor = cursor /\ o.ret = last.ret

\* C16 witness: a character was typed by a sequence of three keys, whose
\* second and third would have typed and moved as well.
C16_Witness ==
    /\ Plain("Char")
    /\ Len(last.keys) = 3
    /\ last.keys[2].key.code = "Char"
    /\ Len(line) = Len(last.line) + 1
    /\ cursor = last.cursor + 1

\* The three spans of the active widget, as the claim C14 describes them,
\* with the given text standing at the cursor when cursor = len(line).
Segments(placeholder) ==
    (view.shown /\ view.active) =>
        /\ Len(view.spans) = 3
        /\ view.spans[1].text = Spelled(Slice(line, 0, cursor))
        /\ view.spans[2].text =
            IF cursor < Len(line) THEN Literal[line[cursor + 1]] ELSE placeholder
        /\ view.spans[3].text =
            IF cursor < Len(line)
            THEN Spelled(Slice(line, cursor + 1, Len(line)))
            ELSE <<>>
        /\ cursor < Len(line) =>
            view.spans[1].text \o view.spans[2].text \o view.spans[3].text
                = get_text(line)

\* C14 as stated: the segment at the cursor is the one character
\* line[cursor] when cursor < len(line) and empty when cursor = len(line).
C14_EmptyPlaceholder == Segments(<<>>)

\* C14, amended: the active widget splits the line into before-cursor =
\* line[0..cursor], at-cursor = the one character line[cursor] when
\* cursor < len(line) and one space when cursor = len(line), after-cursor =
\* line[cursor+1..] (empty when cursor = len(line)); when cursor < len(line)
\* the three concatenated equal get_text().
C14_SpacePlaceholder == Segments(<<32>>)

\* C14 witness: the active widget of a line with text, drawn after an
\* input() that left the cursor at the end of the line.
C14_Witness ==
    /\ view.shown
    /\ view.active
    /\ Called
    /\ cursor = Len(line)
    /\ Len(line) > 0
    /\ Len(view.spans[1].text) > Len(line)

\* C19: in every state reachable from new(seed) by input() calls, the reads
\* widget(true) makes of line are in bounds: line[0..cursor] is a valid
\* range, and line[cursor] and line[cursor+1..] are read only when
\* cursor < len(line); rendering does not panic.
C19_RenderInBounds ==
    LET w == widget(line, cursor, TRUE)
    IN  /\ ~w.panic
        /\ \A i \in 1..Len(w.reads) :
            /\ 0 <= w.reads[i].lo
            /\ w.reads[i].lo <= w.reads[i].hi
            /\ w.reads[i].hi <= Len(line)
        /\ w.reads[1] = [lo |-> 0, hi |-> cursor]
        /\ Len(w.reads) = IF cursor < Len(line) THEN 3 ELSE 1
        /\ view.shown => ~view.panic

\* C19 witness: the active widget was drawn after an input() that left the
\* cursor on the last character, so that line[cursor+1..] was read at len.
C19_Witness ==
    /\ view.shown
    /\ view.active
    /\ Called
    /\ cursor + 1 = Len(line)
    /\ Len(view.reads) = 3
    /\ view.reads[2] = [lo |-> Len(line), hi |-> Len(line)]
    /\ ~panicked

\* C17: insert and delete-backward are inverse: from line = L, cursor = k,
\* input(Char(c)) immediately followed by input(Backspace) returns
\* TextChanged twice and restores line = L and cursor = k.
C17_InsertThenBackspace ==
    (Plain("Backspace") /\ prev.op = "input") =>
        /\ prev.ret = "TextChanged"
        /\ last.ret = "TextChanged"
        /\ line = prev.line
        /\ cursor = prev.cursor

\* C17 witness: a character typed strictly inside a line, between two
\* different characters, was taken back by the Backspace that followed.
C17_Witness ==
    /\ Plain("Backspace")
    /\ prev.op = "input"
    /\ prev.cursor > 0
    /\ prev.cursor < Len(prev.line)
    /\ prev.line[prev.cursor] # prev.line[prev.cursor + 1]
    /\ line = prev.line
    /\ cursor = prev.cursor

\* C18: a run of consecutive Backspace keys from line = L, cursor = k
\* returns TextChanged for exactly its first k calls and Ack for every call
\* after, and ends with cursor = 0 and line = L[k..]: after n calls the line
\* is L without the min(n, k) characters left of k, and the characters at
\* and right of k are all there, in order.
C18_BackspaceRun ==
    run.n > 0 =>
        LET L == run.line
            k == run.cursor
            n == run.n
            left == IF n <= k THEN k - n ELSE 0
        IN  /\ Plain("Backspace")
            /\ last.ret = IF n <= k THEN "TextChanged" ELSE "Ack"
            /\ cursor = left
            /\ line = Slice(L, 0, left) \o Slice(L, k, Len(L))
            /\ Slice(line, cursor, Len(line)) = Slice(L, k, Len(L))

\* C18 witness: a run that started with two characters left of the cursor
\* and text right of it has gone one call past the start of the line.
C18_Witness ==
    /\ run.cursor >= 2
    /\ Len(run.line) > run.cursor
    /\ run.n = run.cursor + 1
    /\ last.ret = "Ack"
    /\ cursor = 0
    /\ Len(line) > 0

====
